---- MODULE Spec2Model ----
(***************************************************************************)
(* Attendance scan engine of the panel front end: the UserDashboard        *)
(* component (scan result, loading flag, cooldown counter and its          *)
(* one-second interval) and the QRScanner child component in its two       *)
(* interchangeable implementations: the decoder-backed one built on the    *)
(* qr-scanner library and the demo one that decodes on a click.            *)
(*                                                                         *)
(* React semantics assumed (concurrent root, React 18 and later):          *)
(*  - the state updates of one handler or continuation are batched into    *)
(*    one commit, so one action is one handler plus the commit it causes;  *)
(*  - a closure (handler, effect, decoder callback) reads the state and    *)
(*    props of the render that created it;                                 *)
(*  - a passive effect caused by a click is run with that click's commit;  *)
(*    a passive effect caused by a promise continuation or a timer is run  *)
(*    later, in a task of its own, and in any case before the next render; *)
(*  - unmounting runs the effect cleanups and discards the component state, *)
(*    after which its state setters do nothing; the discarded state is kept *)
(*    at its initial values.                                                *)
(***************************************************************************)
EXTENDS Integers, Sequences, FiniteSets, TLC

\* Bounds of the model.
MaxCooldown == 2      \* largest cooldown_seconds a response carries
MaxInFlight == 2      \* unresolved processScan calls kept at once
MaxPending  == 1      \* unresolved promises of QrScanner instances no longer held
MaxStreams  == 2      \* camera streams open or being acquired (demo scanner)
MaxCalls    == 2      \* unresolved requests of the axios instance kept at once

VARIABLES
  variant,           \* which QRScanner implementation is mounted
  mounted,           \* UserDashboard (and its QRScanner) is rendered by PanelApp
  switchRequested,   \* the user clicked the disabled camera button during a
                     \* submission, and no click or scan has been handled since
  \* UserDashboard
  scanResult, loading, cooldownTimer, isCooldownActive,
  effectPending,     \* the [cooldownTimer] effect of the last commit has not run yet
  intervals,         \* live setInterval handles created by the cooldown effect
  inflight,          \* unresolved processScan calls, in the order they were issued
  \* QRScanner (both variants)
  isScanning, error, facingMode,
  \* QRScanner, decoder-backed variant
  qrScannerRef,      \* qrScannerRef.current: Null or the instance held
  liveScanners,      \* QrScanner instances created and not destroyed
  orphanStarts,      \* unresolved start() promises of instances no longer held
  pendingSetCamera,  \* unresolved setCamera() promises
  cbDisabled, cbCooldownActive, cbCooldownTimer,  \* what the decode callback captured
  \* QRScanner, demo variant
  streamRef,         \* streamRef.current holds a stream
  pendingStreams,    \* unresolved getUserMedia calls
  openStreams,       \* streams acquired and not stopped
  \* services/api.js and the browser
  storage,           \* keys present in localStorage
  location,          \* window.location.href, as a path
  apiCalls,          \* unresolved requests of the axios instance, oldest first
  settled            \* how the last settled request reached its caller, or Null

dashVars  == <<scanResult, loading, cooldownTimer, isCooldownActive, effectPending,
               intervals, inflight>>
camVars   == <<isScanning, error, facingMode>>
decVars   == <<qrScannerRef, liveScanners, orphanStarts, pendingSetCamera,
               cbDisabled, cbCooldownActive, cbCooldownTimer>>
demoVars  == <<streamRef, pendingStreams, openStreams>>
apiVars   == <<storage, location, apiCalls, settled>>
vars      == <<variant, mounted, switchRequested, dashVars, camVars, decVars, demoVars,
               apiVars>>

----------------------------------------------------------------------------
\* Values

Null == [null |-> TRUE]
Has(r, f) == f \in DOMAIN r

Variants == {"decoder", "demo"}

\* String.prototype.includes over token sequences: a contiguous occurrence.
Includes(s, t) ==
  \E i \in 0..(Len(s) - Len(t)) : SubSeq(s, i + 1, i + Len(t)) = t

\* The needle of message.includes(...); strings are kept in ASCII.
WaitWord == <<"poczekac">>

\* Messages a backend response may carry.
Messages ==
  { <<"Musisz", "poczekac", "chwile">>,
    <<"Kod", "QR", "z", "innej", "firmy">>,
    <<"Poczekac", "chwile">> }

CooldownSeconds == (-1)..MaxCooldown

\* processScan's result: a response of the backend, or a thrown fault.
BackendResponses ==
     { [success |-> TRUE, action |-> a, message |-> <<"OK">>] : a \in {"check_in", "check_out"} }
  \cup { [success |-> TRUE, action |-> a, message |-> <<"OK">>, cooldown_seconds |-> c] :
            a \in {"check_in", "check_out"}, c \in CooldownSeconds }
  \cup { [success |-> FALSE, message |-> m] : m \in Messages }
  \cup { [success |-> FALSE, message |-> m, cooldown_seconds |-> c] :
            m \in Messages, c \in CooldownSeconds }

\* Results outside the response shape, whose handling throws inside the try block:
\* reading result.message.includes of a failure without a message.
MalformedResponses ==
  { [success |-> FALSE], [success |-> FALSE, cooldown_seconds |-> MaxCooldown] }

Throw == [throws |-> TRUE]
ProcessScanOutcomes == BackendResponses \cup MalformedResponses \cup {Throw}

\* The try block of handleQRScan ends in its catch block.
Throws(out) == Has(out, "throws") \/ (~out.success /\ ~Has(out, "message"))

\* A test that takes every cooldown_seconds that is present, 0 included.
TruthyWhenPresent(r) == Has(r, "cooldown_seconds")

\* JavaScript truthiness of result.cooldown_seconds.
Truthy(r) == Has(r, "cooldown_seconds") /\ r.cooldown_seconds # 0

----------------------------------------------------------------------------
\* UserDashboard

\* disabled={loading || isCooldownActive}
Disabled == loading \/ isCooldownActive

\* An effect body that activates the cooldown whatever the counter is.
EffectActiveAlways(timer) == TRUE

\* The cooldown effect's body for the committed cooldownTimer.
EffectActive(timer) == timer > 0

\* The body alone, without the cleanup of the previous run: the interval
\* created before stays scheduled.
EffectIntervalsNoCleanup(timer) == IF timer > 0 THEN intervals + 1 ELSE intervals

\* The intervals scheduled after the effect has run: the cleanup of the
\* previous run has cleared its interval, the body creates one while the
\* counter is positive.
EffectIntervals(timer) == IF timer > 0 THEN 1 ELSE 0

\* State after the pending passive effects have been flushed, which React does
\* before it renders again.
FlushedActive == IF effectPending THEN EffectActive(cooldownTimer) ELSE isCooldownActive
FlushedIntervals == IF effectPending THEN EffectIntervals(cooldownTimer) ELSE intervals

\* A commit that leaves cooldownTimer alone.
Flush ==
  /\ isCooldownActive' = FlushedActive
  /\ intervals' = FlushedIntervals
  /\ effectPending' = FALSE
  /\ UNCHANGED cooldownTimer

\* The outcome handleQRScan shows when its closure saw the cooldown active.
LocalCooldownResult(timer) ==
  [success |-> FALSE,
   message |-> <<"Musisz", "poczekac", ToString(timer), "sekund">>,
   isCooldown |-> TRUE]

SuccessResult(r) ==
  IF Has(r, "cooldown_seconds")
  THEN [success |-> TRUE, action |-> r.action, message |-> r.message,
        cooldown_seconds |-> r.cooldown_seconds]
  ELSE [success |-> TRUE, action |-> r.action, message |-> r.message]

\* A failure outcome that is always marked unauthorized.
FailureAlwaysUnauthorized(r) ==
  [success |-> FALSE, message |-> r.message,
   isUnauthorized |-> TRUE,
   isCooldown |-> Includes(r.message, WaitWord)]

FailureResult(r) ==
  [success |-> FALSE, message |-> r.message,
   isUnauthorized |-> ~Includes(r.message, WaitWord),
   isCooldown |-> Includes(r.message, WaitWord)]

ErrorResult == [success |-> FALSE, message |-> <<"Blad", "polaczenia", "z", "serwerem">>]

\* A response that is dropped once the scanner has been stopped.
OutcomeUnlessStopped(out) ==
  IF ~isScanning THEN Null
  ELSE IF Throws(out) THEN ErrorResult
  ELSE IF out.success THEN SuccessResult(out)
  ELSE FailureResult(out)

\* The outcome delivered for what processScan produced.
OutcomeOf(out) ==
  IF Throws(out) THEN ErrorResult
  ELSE IF out.success THEN SuccessResult(out)
  ELSE FailureResult(out)

\* A cooldown armed by whatever cooldown_seconds the result carries, even when
\* handling the result throws.
ArmedTimerDespiteThrow(out, timer) ==
  IF Truthy(out) THEN out.cooldown_seconds ELSE timer

\* A cooldown that adds the new duration to what remains.
ArmedTimerSummed(out, timer) ==
  IF ~Throws(out) /\ Truthy(out) THEN timer + out.cooldown_seconds ELSE timer

\* A cooldown that a failure arms only when its message names the wait.
ArmedTimerWaitOnly(out, timer) ==
  IF ~Throws(out) /\ Truthy(out) /\ (out.success \/ Includes(out.message, WaitWord))
  THEN out.cooldown_seconds ELSE timer

\* setCooldownTimer's argument after a response, or the timer as it is.
ArmedTimer(out, timer) ==
  IF ~Throws(out) /\ Truthy(out) THEN out.cooldown_seconds ELSE timer

\* handleQRScan up to its await, run with the closure values of some render.
HandleQRScan(closActive, closTimer) ==
  /\ IF closActive
     THEN /\ scanResult' = LocalCooldownResult(closTimer)
          /\ UNCHANGED <<loading, inflight>>
     ELSE /\ Len(inflight) < MaxInFlight
          /\ loading' = TRUE
          /\ scanResult' = Null
          /\ inflight' = Append(inflight, [overtaken |-> FALSE])
  /\ Flush

RemoveAt(s, i) == SubSeq(s, 1, i - 1) \o SubSeq(s, i + 1, Len(s))

\* handleQRScan after its await: the i-th unresolved call settles with out.
Respond(i, out) ==
  /\ i \in 1..Len(inflight)
  /\ IF mounted
     THEN /\ scanResult' = OutcomeOf(out)
          /\ cooldownTimer' = ArmedTimer(out, cooldownTimer)
          /\ loading' = FALSE
          /\ isCooldownActive' = FlushedActive
          /\ intervals' = FlushedIntervals
          /\ effectPending' = (cooldownTimer' # cooldownTimer)
     ELSE UNCHANGED <<scanResult, cooldownTimer, loading, isCooldownActive,
                      intervals, effectPending>>
  /\ inflight' = RemoveAt([j \in 1..Len(inflight) |->
                             [overtaken |-> inflight[j].overtaken \/ j < i]], i)
  /\ UNCHANGED <<apiVars, variant, mounted, switchRequested, camVars, decVars, demoVars>>

\* An updater that counts down two seconds a tick.
TickTimerByTwo(timer) == IF timer <= 2 THEN 0 ELSE timer - 2

\* An updater that leaves the counter as it is.
TickTimerStuck(timer) == timer

\* The updater of the interval callback.
TickTimer(timer) == IF timer <= 1 THEN 0 ELSE timer - 1

\* The interval callback: setCooldownTimer(timer => ...).
Tick ==
  /\ mounted
  /\ intervals > 0
  /\ ~effectPending
  /\ cooldownTimer' = TickTimer(cooldownTimer)
  /\ isCooldownActive' = IF cooldownTimer <= 1 THEN FALSE ELSE isCooldownActive
  /\ effectPending' = (cooldownTimer' # cooldownTimer)
  /\ UNCHANGED <<intervals, scanResult, loading, inflight>>
  /\ UNCHANGED <<apiVars, variant, mounted, switchRequested, camVars, decVars, demoVars>>

\* The [cooldownTimer] effect: the previous run's cleanup, then its body.
CooldownEffect ==
  /\ mounted
  /\ effectPending
  /\ isCooldownActive' = EffectActive(cooldownTimer)
  /\ intervals' = EffectIntervals(cooldownTimer)
  /\ effectPending' = FALSE
  /\ UNCHANGED <<cooldownTimer, scanResult, loading, inflight>>
  /\ UNCHANGED <<apiVars, variant, mounted, switchRequested, camVars, decVars, demoVars>>

clearResult ==
  /\ mounted
  /\ scanResult # Null
  /\ scanResult' = Null
  /\ Flush
  /\ UNCHANGED <<loading, inflight>>
  /\ switchRequested' = FALSE
  /\ UNCHANGED <<apiVars, variant, mounted, camVars, decVars, demoVars>>

----------------------------------------------------------------------------
\* QRScanner, decoder-backed variant

\* A QrScanner instance as qrScannerRef holds it: its start() promise is
\* unresolved ("starting"), resolved ("running") or rejected ("failed").
NewScanner == [status |-> "starting", destroys |-> 0]

\* A replacement that leaves the instance held open.
LiveWithoutDestroy(sc, live) == live

\* The open instances after destroy() on the instance sc, which releases its
\* camera stream; a second destroy() of the same instance releases nothing.
LiveAfterDestroy(sc, live) == IF sc.destroys = 0 THEN live - 1 ELSE live

\* The instance held is decoding frames.
Running == qrScannerRef # Null /\ qrScannerRef.status = "running"
                               /\ qrScannerRef.destroys = 0

\* The start() promises left unresolved when the instance held is replaced or dropped.
OrphansAfterDrop ==
  IF qrScannerRef # Null /\ qrScannerRef.status = "starting"
  THEN orphanStarts + 1 ELSE orphanStarts

\* startScanning up to its await, with the props of the render that made it.
startScanningDecoder ==
  /\ OrphansAfterDrop <= MaxPending
  /\ error' = "null"
  /\ isScanning' = TRUE
  /\ liveScanners' = (IF qrScannerRef # Null
                      THEN LiveAfterDestroy(qrScannerRef, liveScanners)
                      ELSE liveScanners) + 1
  /\ orphanStarts' = OrphansAfterDrop
  /\ qrScannerRef' = NewScanner
  /\ cbDisabled' = Disabled
  /\ cbCooldownActive' = isCooldownActive
  /\ cbCooldownTimer' = IF isCooldownActive THEN cooldownTimer ELSE 0

StartClickDecoder ==
  /\ mounted /\ variant = "decoder"
  /\ ~isScanning /\ ~Disabled
  /\ startScanningDecoder
  /\ Flush
  /\ UNCHANGED <<facingMode, pendingSetCamera>>
  /\ UNCHANGED <<scanResult, loading, inflight>>
  /\ switchRequested' = FALSE
  /\ UNCHANGED <<apiVars, variant, mounted, demoVars>>

\* A catch block that reports the error and leaves the scanner marked as on.
StartFailedStaysOn ==
  /\ error' = "camera"
  /\ UNCHANGED isScanning
  /\ Flush

\* The catch block of startScanning.
StartFailed ==
  /\ error' = "camera"
  /\ isScanning' = FALSE
  /\ Flush

\* await qrScanner.start() settles for the instance held.
StartSettlesDecoder(ok) ==
  /\ mounted /\ variant = "decoder"
  /\ qrScannerRef # Null /\ qrScannerRef.status = "starting"
  /\ IF ok
     THEN /\ qrScannerRef' = [qrScannerRef EXCEPT !.status = "running"]
          /\ UNCHANGED <<error, isScanning>>
          /\ UNCHANGED <<isCooldownActive, intervals, effectPending, cooldownTimer>>
     ELSE /\ qrScannerRef' = [qrScannerRef EXCEPT !.status = "failed"]
          /\ StartFailed
  /\ UNCHANGED <<facingMode, orphanStarts, pendingSetCamera, liveScanners,
                 cbDisabled, cbCooldownActive, cbCooldownTimer>>
  /\ UNCHANGED <<scanResult, loading, inflight>>
  /\ UNCHANGED <<apiVars, variant, mounted, switchRequested, demoVars>>

\* await qrScanner.start() settles for an instance that was destroyed meanwhile.
OrphanStartSettlesDecoder(ok) ==
  /\ variant = "decoder"
  /\ orphanStarts > 0
  /\ orphanStarts' = orphanStarts - 1
  /\ IF ok \/ ~mounted
     THEN /\ UNCHANGED <<error, isScanning>>
          /\ UNCHANGED <<isCooldownActive, intervals, effectPending, cooldownTimer>>
     ELSE StartFailed
  /\ UNCHANGED <<facingMode, qrScannerRef, pendingSetCamera, liveScanners,
                 cbDisabled, cbCooldownActive, cbCooldownTimer>>
  /\ UNCHANGED <<scanResult, loading, inflight>>
  /\ UNCHANGED <<apiVars, variant, mounted, switchRequested, demoVars>>

\* What stopScanning reads and writes.
DecoderCam == [ref |-> qrScannerRef, live |-> liveScanners, orphans |-> orphanStarts,
               scanning |-> isScanning]

\* stopScanning as a function of that state.
StopDecoder(c) ==
  IF c.ref # Null
  THEN [ref |-> Null,
        live |-> LiveAfterDestroy(c.ref, c.live),
        orphans |-> IF c.ref.status = "starting" THEN c.orphans + 1 ELSE c.orphans,
        scanning |-> FALSE]
  ELSE [c EXCEPT !.scanning = FALSE]

stopScanningDecoder ==
  LET c == StopDecoder(DecoderCam) IN
  /\ qrScannerRef' = c.ref
  /\ liveScanners' = c.live
  /\ orphanStarts' = c.orphans
  /\ isScanning' = c.scanning

StopClickDecoder ==
  /\ mounted /\ variant = "decoder"
  /\ isScanning /\ ~Disabled
  /\ OrphansAfterDrop <= MaxPending
  /\ stopScanningDecoder
  /\ Flush
  /\ UNCHANGED <<error, facingMode, pendingSetCamera, cbDisabled, cbCooldownActive,
                 cbCooldownTimer>>
  /\ UNCHANGED <<scanResult, loading, inflight>>
  /\ switchRequested' = FALSE
  /\ UNCHANGED <<apiVars, variant, mounted, demoVars>>

Flip(f) == IF f = "environment" THEN "user" ELSE "environment"

\* setCamera promises unresolved after toggleCamera's call on the instance held.
SetCameraCalled == IF qrScannerRef # Null THEN pendingSetCamera + 1 ELSE pendingSetCamera

\* toggleCamera up to its await, then the [facingMode] effect of its commit,
\* whose closure sees isScanning true and so calls startScanning.
ToggleClickDecoder ==
  /\ mounted /\ variant = "decoder"
  /\ isScanning /\ ~Disabled
  /\ SetCameraCalled <= MaxPending
  /\ facingMode' = Flip(facingMode)
  /\ pendingSetCamera' = SetCameraCalled
  /\ startScanningDecoder
  /\ Flush
  /\ UNCHANGED <<scanResult, loading, inflight>>
  /\ switchRequested' = FALSE
  /\ UNCHANGED <<apiVars, variant, mounted, demoVars>>

\* A click on the camera button while it is disabled during a submission: the
\* browser dispatches no click event, so toggleCamera is not run; the request
\* is only recorded here as made.
ToggleClickDisabled ==
  /\ mounted
  /\ isScanning /\ loading
  /\ ~switchRequested
  /\ switchRequested' = TRUE
  /\ UNCHANGED <<apiVars, variant, mounted, dashVars, camVars, decVars, demoVars>>

\* await setCamera(...) settles; the catch block of toggleCamera on a rejection.
SetCameraSettlesDecoder(ok) ==
  /\ variant = "decoder"
  /\ pendingSetCamera > 0
  /\ pendingSetCamera' = pendingSetCamera - 1
  /\ IF ok \/ ~mounted
     THEN /\ UNCHANGED error
          /\ UNCHANGED <<isCooldownActive, intervals, effectPending, cooldownTimer>>
     ELSE /\ error' = "switch"
          /\ Flush
  /\ UNCHANGED <<isScanning, facingMode, qrScannerRef, orphanStarts, liveScanners,
                 cbDisabled, cbCooldownActive, cbCooldownTimer>>
  /\ UNCHANGED <<scanResult, loading, inflight>>
  /\ UNCHANGED <<apiVars, variant, mounted, switchRequested, demoVars>>

\* A decode callback that also stops the scanner once it has passed a payload
\* on (the call left commented out in the callback).
DecodeDecoderStopping ==
  /\ mounted /\ variant = "decoder"
  /\ Running
  /\ ~cbDisabled
  /\ HandleQRScan(cbCooldownActive, cbCooldownTimer)
  /\ stopScanningDecoder
  /\ UNCHANGED <<error, facingMode, pendingSetCamera, cbDisabled, cbCooldownActive,
                 cbCooldownTimer>>
  /\ switchRequested' = FALSE
  /\ UNCHANGED <<apiVars, variant, mounted, demoVars>>

\* The decode callback given to new QrScanner(...), for a frame with a payload.
DecodeDecoder ==
  /\ mounted /\ variant = "decoder"
  /\ Running
  /\ ~cbDisabled
  /\ HandleQRScan(cbCooldownActive, cbCooldownTimer)
  /\ switchRequested' = FALSE
  /\ UNCHANGED <<apiVars, variant, mounted, camVars, decVars, demoVars>>

----------------------------------------------------------------------------
\* QRScanner, demo variant

StartClickDemo ==
  /\ mounted /\ variant = "demo"
  /\ ~isScanning /\ ~Disabled
  /\ pendingStreams + openStreams < MaxStreams
  /\ error' = "null"
  /\ isScanning' = TRUE
  /\ pendingStreams' = pendingStreams + 1
  /\ Flush
  /\ UNCHANGED <<facingMode, streamRef, openStreams>>
  /\ UNCHANGED <<scanResult, loading, inflight>>
  /\ switchRequested' = FALSE
  /\ UNCHANGED <<apiVars, variant, mounted, decVars>>

\* await getUserMedia(...) settles; videoRef.current is set while the video
\* element is rendered, which it is while mounted and isScanning.
AcquireSettlesDemo(ok) ==
  /\ variant = "demo"
  /\ pendingStreams > 0
  /\ pendingStreams' = pendingStreams - 1
  /\ IF ok
     THEN /\ openStreams' = openStreams + 1
          /\ streamRef' = (streamRef \/ isScanning)
          /\ UNCHANGED <<error, isScanning>>
          /\ UNCHANGED <<isCooldownActive, intervals, effectPending, cooldownTimer>>
     ELSE /\ IF mounted
             THEN /\ error' = "camera"
                  /\ isScanning' = FALSE
                  /\ Flush
             ELSE /\ UNCHANGED <<error, isScanning>>
                  /\ UNCHANGED <<isCooldownActive, intervals, effectPending, cooldownTimer>>
          /\ UNCHANGED <<openStreams, streamRef>>
  /\ UNCHANGED facingMode
  /\ UNCHANGED <<scanResult, loading, inflight>>
  /\ UNCHANGED <<apiVars, variant, mounted, switchRequested, decVars>>

\* What stopScanning reads and writes.
DemoCam == [ref |-> streamRef, open |-> openStreams, scanning |-> isScanning]

\* stopScanning as a function of that state.
StopDemo(c) ==
  IF c.ref
  THEN [ref |-> FALSE, open |-> c.open - 1, scanning |-> FALSE]
  ELSE [c EXCEPT !.scanning = FALSE]

stopScanningDemo ==
  LET c == StopDemo(DemoCam) IN
  /\ streamRef' = c.ref
  /\ openStreams' = c.open
  /\ isScanning' = c.scanning

StopClickDemo ==
  /\ mounted /\ variant = "demo"
  /\ isScanning /\ ~Disabled
  /\ stopScanningDemo
  /\ Flush
  /\ UNCHANGED <<error, facingMode, pendingStreams>>
  /\ UNCHANGED <<scanResult, loading, inflight>>
  /\ switchRequested' = FALSE
  /\ UNCHANGED <<apiVars, variant, mounted, decVars>>

\* toggleCamera; the [facingMode] effect of its commit sees isScanning false.
ToggleClickDemo ==
  /\ mounted /\ variant = "demo"
  /\ isScanning /\ ~Disabled
  /\ stopScanningDemo
  /\ facingMode' = Flip(facingMode)
  /\ Flush
  /\ UNCHANGED <<error, pendingStreams>>
  /\ UNCHANGED <<scanResult, loading, inflight>>
  /\ switchRequested' = FALSE
  /\ UNCHANGED <<apiVars, variant, mounted, decVars>>

\* handleVideoClick, with the handler and props of the last commit.
VideoClickDemo ==
  /\ mounted /\ variant = "demo"
  /\ isScanning /\ ~loading
  /\ HandleQRScan(isCooldownActive, cooldownTimer)
  /\ switchRequested' = FALSE
  /\ UNCHANGED <<apiVars, variant, mounted, camVars, decVars, demoVars>>

----------------------------------------------------------------------------
\* services/api.js: the axios instance and its interceptors

\* The localStorage keys of the stored session.
SessionKeys == {"token", "user"}

\* The routes of the application: the home page and the panel, whose entry
\* point shows the login page when no session is stored.
Locations == {"/", "/panel"}

\* The status the response interceptor tests for.
Unauthorized == 401

\* HTTP statuses a response may carry.
Statuses == {200, Unauthorized, 403, 500}

\* A request that got no response at all (error.response is undefined).
NetworkError == [network |-> TRUE]

\* What a request of the axios instance settles with.
ApiResults == { [status |-> st] : st \in Statuses } \cup {NetworkError}

\* axios resolves a response whose status is 2xx and rejects everything else.
Fulfilled(r) == Has(r, "status") /\ r.status \in 200..299

\* error.response?.status === 401
IsUnauthorized(r) == Has(r, "status") /\ r.status = Unauthorized

\* An error handler that removes the token and leaves the user entry.
StorageAfterErrorTokenOnly(r, st) == IF IsUnauthorized(r) THEN st \ {"token"} ELSE st

\* The error handler of the response interceptor: localStorage afterwards.
StorageAfterError(r, st) == IF IsUnauthorized(r) THEN st \ SessionKeys ELSE st

\* The error handler of the response interceptor: window.location.href afterwards.
LocationAfterError(r, loc) == IF IsUnauthorized(r) THEN "/panel" ELSE loc

\* A request is sent: the request interceptor adds the Authorization header
\* when a token is stored.
ApiRequest ==
  /\ Len(apiCalls) < MaxCalls
  /\ apiCalls' = Append(apiCalls, [authorized |-> "token" \in storage])
  /\ UNCHANGED <<storage, location, settled>>
  /\ UNCHANGED <<variant, mounted, switchRequested, dashVars, camVars, decVars, demoVars>>

\* The i-th unresolved request settles with r and passes the response
\* interceptor: the response is handed on, or the error handler runs and
\* rejects with the error.
ApiSettles(i, r) ==
  /\ i \in 1..Len(apiCalls)
  /\ apiCalls' = RemoveAt(apiCalls, i)
  /\ IF Fulfilled(r)
     THEN /\ settled' = [result |-> r, rejected |-> FALSE]
          /\ UNCHANGED <<storage, location>>
     ELSE /\ storage' = StorageAfterError(r, storage)
          /\ location' = LocationAfterError(r, location)
          /\ settled' = [result |-> r, rejected |-> TRUE]
  /\ UNCHANGED <<variant, mounted, switchRequested, dashVars, camVars, decVars, demoVars>>

----------------------------------------------------------------------------
\* PanelApp

\* handleLogout: PanelApp renders the login page, UserDashboard and QRScanner
\* unmount. The cooldown effect's cleanup clears its interval, QRScanner's
\* cleanup calls stopScanning, and the component state is discarded.
handleLogout ==
  /\ mounted
  /\ mounted' = FALSE
  /\ switchRequested' = FALSE
  /\ scanResult' = Null
  /\ loading' = FALSE
  /\ cooldownTimer' = 0
  /\ isCooldownActive' = FALSE
  /\ effectPending' = FALSE
  /\ intervals' = 0
  /\ error' = "null"
  /\ facingMode' = "environment"
  /\ IF variant = "decoder"
     THEN /\ OrphansAfterDrop <= MaxPending
          /\ stopScanningDecoder
          /\ cbDisabled' = FALSE
          /\ cbCooldownActive' = FALSE
          /\ cbCooldownTimer' = 0
          /\ UNCHANGED <<pendingSetCamera, demoVars>>
     ELSE /\ stopScanningDemo
          /\ UNCHANGED <<pendingStreams, decVars>>
  /\ storage' = storage \ SessionKeys
  /\ UNCHANGED <<location, apiCalls, settled>>
  /\ UNCHANGED <<variant, inflight>>

----------------------------------------------------------------------------
\* The system

\* UserDashboard and its QRScanner as first rendered.
DashboardInit ==
  /\ variant \in Variants
  /\ mounted = TRUE
  /\ switchRequested = FALSE
  /\ scanResult = Null
  /\ loading = FALSE
  /\ cooldownTimer = 0
  /\ isCooldownActive = FALSE
  /\ effectPending = FALSE
  /\ intervals = 0
  /\ inflight = <<>>
  /\ isScanning = FALSE
  /\ error = "null"
  /\ facingMode = "environment"
  /\ qrScannerRef = Null
  /\ liveScanners = 0
  /\ orphanStarts = 0
  /\ pendingSetCamera = 0
  /\ cbDisabled = FALSE
  /\ cbCooldownActive = FALSE
  /\ cbCooldownTimer = 0
  /\ streamRef = FALSE
  /\ pendingStreams = 0
  /\ openStreams = 0

\* A user is logged in: handleLogin has stored the session and the panel is shown.
Init ==
  /\ DashboardInit
  /\ storage = SessionKeys
  /\ location = "/panel"
  /\ apiCalls = <<>>
  /\ settled = Null

Next ==
  \/ \E i \in 1..MaxInFlight, out \in ProcessScanOutcomes : Respond(i, out)
  \/ Tick
  \/ CooldownEffect
  \/ clearResult
  \/ StartClickDecoder
  \/ \E ok \in BOOLEAN : StartSettlesDecoder(ok)
  \/ \E ok \in BOOLEAN : OrphanStartSettlesDecoder(ok)
  \/ StopClickDecoder
  \/ ToggleClickDecoder
  \/ \E ok \in BOOLEAN : SetCameraSettlesDecoder(ok)
  \/ DecodeDecoder
  \/ StartClickDemo
  \/ \E ok \in BOOLEAN : AcquireSettlesDemo(ok)
  \/ StopClickDemo
  \/ ToggleClickDemo
  \/ VideoClickDemo
  \/ handleLogout
  \/ ToggleClickDisabled

Spec == Init /\ [][Next]_vars

\* The axios instance on its own: its requests and their results, for every
\* content of the stored session and every page the requests are made from.
ApiInit ==
  /\ DashboardInit
  /\ variant = "demo"
  /\ storage \in SUBSET SessionKeys
  /\ location \in Locations
  /\ apiCalls = <<>>
  /\ settled = Null

ApiNext ==
  \/ ApiRequest
  \/ \E i \in 1..MaxCalls, r \in ApiResults : ApiSettles(i, r)

ApiSpec == ApiInit /\ [][ApiNext]_vars

\* The cooldown tick and the cooldown effect are scheduled by the browser and by
\* React and always run once due; nothing else is assumed to happen.
FairSpec == Spec /\ WF_vars(Tick) /\ WF_vars(CooldownEffect)

----------------------------------------------------------------------------
\* Properties

\* A step that issues a submission (a processScan call).
SubmissionIssued == Len(inflight') > Len(inflight)

\* A step in which a processScan call settles and its outcome is delivered.
ResponseStep == Len(inflight') < Len(inflight)

\* A step that handles a decode event of either scanner.
DecodeStep == DecodeDecoder \/ VideoClickDemo

Accepted(r) == r # Null /\ r.success
CarriesCooldown(r) == Accepted(r) /\ Has(r, "cooldown_seconds") /\ r.cooldown_seconds > 0

\* C1: while the cooldown is active (isCooldownActive true) no step issues a
\* submission, in either scanner variant.
C1_NoSubmissionWhileCooldownActive ==
  [][isCooldownActive => ~SubmissionIssued]_vars

\* C2: at most one submission is in flight at any instant.
C2_AtMostOneInFlight == Len(inflight) <= 1

\* C3: delivering an accepted outcome that carries a cooldown makes the
\* cooldown active with that value in the same step: the outcome is never
\* displayed with the cooldown still inactive.
C3_CooldownArmedWithOutcome ==
  [][(ResponseStep /\ CarriesCooldown(scanResult'))
       => (isCooldownActive' /\ cooldownTimer' = scanResult'.cooldown_seconds)]_vars

\* A response that arms the cooldown: its cooldown_seconds is read and truthy.
Arms(out) == ~Throws(out) /\ Truthy(out)

\* C4: a response that arms the cooldown leaves the counter equal to the
\* duration it carries, whatever the counter was (armed before or not, its
\* effect run or not): never the sum with what remained, never the old value.
C4_LatestDurationWins ==
  [][(mounted /\ ResponseStep) =>
       \A i \in 1..MaxInFlight, out \in ProcessScanOutcomes :
          (Arms(out) /\ Respond(i, out)) => cooldownTimer' = out.cooldown_seconds]_vars

\* The cooldown was active with one second left and has just been armed again
\* with MaxCooldown: the counter changed upwards while active.
C4_RearmedWhileActive ==
  isCooldownActive /\ effectPending /\ cooldownTimer = MaxCooldown /\ intervals = 1

\* A step that changes the camera facing of the scanner on screen.
SwitchStep == mounted' /\ facingMode' # facingMode

StopIdempotent ==
  /\ StopDecoder(StopDecoder(DecoderCam)) = StopDecoder(DecoderCam)
  /\ StopDemo(StopDemo(DemoCam)) = StopDemo(DemoCam)

\* stopScanning on a scanner that is not running changes nothing.
StopInertWhenNotRunning ==
  ~isScanning => (StopDecoder(DecoderCam) = DecoderCam /\ StopDemo(DemoCam) = DemoCam)

\* C6: in every state stopScanning is idempotent (twice in a row equals once:
\* isScanning false, nothing held) and, when the scanner is not running, it
\* changes nothing.
C6_StopIdempotentAndInert == StopIdempotent /\ StopInertWhenNotRunning

\* The scanner is not running, yet a QrScanner instance or a stream is held,
\* so that stopScanning (the unmount cleanup) still has something to release.
C6_NotRunningButHeld ==
  mounted /\ ~isScanning /\ (qrScannerRef # Null \/ streamRef)

\* A response re-arms the cooldown: it changes the counter.
RearmStep == ResponseStep /\ cooldownTimer' # cooldownTimer

\* The cooldown is over: the counter is spent, the cooldown inactive, no
\* interval is left and no effect is due.
CooldownOver ==
  cooldownTimer <= 0 /\ ~isCooldownActive /\ intervals = 0 /\ ~effectPending

\* A scanner that is capturing with nothing in flight submits the next decode.
CapturingSubmits ==
  (mounted /\ inflight = <<>> /\ ~loading
     /\ (Running \/ (variant = "demo" /\ isScanning)))
    => ENABLED (DecodeStep /\ SubmissionIssued)

\* C7: unless responses keep re-arming the cooldown, the ticks and the
\* cooldown effect alone bring the counter to 0 and the cooldown to inactive,
\* for good, and decode events are then submitted again.
C7_CooldownExpires ==
  []<><<RearmStep>>_vars \/ <>[](CooldownOver /\ CapturingSubmits)

\* The cooldown is armed with MaxCooldown and its interval is ticking.
C7_ArmedAndTicking ==
  mounted /\ isCooldownActive /\ cooldownTimer = MaxCooldown /\ intervals = 1
          /\ ~effectPending /\ isScanning /\ inflight = <<>>

\* C8: when processScan throws, or handling its result throws, the outcome
\* delivered is the server-error rejection (success false, neither isCooldown
\* nor isUnauthorized), the cooldown counter is left alone and loading is false.
C8_ThrowGivesServerError ==
  [][(mounted /\ ResponseStep) =>
       \A i \in 1..MaxInFlight, out \in MalformedResponses \cup {Throw} :
        Respond(i, out) =>
          /\ scanResult' # Null /\ ~scanResult'.success
          /\ ~Has(scanResult', "isCooldown") /\ ~Has(scanResult', "isUnauthorized")
          /\ cooldownTimer' = cooldownTimer
          /\ ~loading']_vars

\* The server-error rejection is displayed, nothing is in flight, the
\* cooldown is not armed and the scanner is capturing again.
C8_ServerErrorShown ==
  /\ mounted /\ scanResult = ErrorResult /\ ~loading /\ inflight = <<>>
  /\ cooldownTimer = 0 /\ ~isCooldownActive /\ isScanning

\* The message names the wait condition: the word occurs in it.
IndicatesWait(msg) == \E k \in DOMAIN msg : msg[k] = "poczekac"

\* C9: the outcome of a backend failure response is marked as exactly one of
\* cooldown and unauthorized: cooldown if and only if its message contains the
\* wait word, unauthorized otherwise.
C9_FailureClassifiedOnce ==
  [][(mounted /\ ResponseStep) =>
       \A i \in 1..MaxInFlight, out \in BackendResponses :
        (~out.success /\ Respond(i, out)) =>
          /\ scanResult' # Null /\ ~scanResult'.success
          /\ Has(scanResult', "isCooldown") /\ Has(scanResult', "isUnauthorized")
          /\ scanResult'.isCooldown # scanResult'.isUnauthorized
          /\ scanResult'.isCooldown = IndicatesWait(out.message)]_vars

\* A backend failure without the wait word is displayed as unauthorized.
C9_UnauthorizedShown ==
  /\ mounted /\ scanResult # Null /\ ~scanResult.success
  /\ Has(scanResult, "isUnauthorized") /\ scanResult.isUnauthorized
  /\ ~scanResult.isCooldown /\ ~IndicatesWait(scanResult.message)

\* The outcome r is the cooldown rejection.
CooldownRejection(r) ==
  r # Null /\ ~r.success /\ Has(r, "isCooldown") /\ r.isCooldown

\* C10: a decode event handled while the cooldown is active issues no
\* submission and displays the cooldown rejection.
C10_DecodeInCooldownRejected ==
  [][(isCooldownActive /\ DecodeStep)
       => (~SubmissionIssued /\ CooldownRejection(scanResult'))]_vars

\* The cooldown is active and the decoder-backed scanner is decoding frames
\* with the callback it was given when it started.
C10_DecodingInCooldown ==
  mounted /\ variant = "decoder" /\ isCooldownActive /\ Running /\ ~cbCooldownActive

\* C11: a decode handled while the cooldown armed by the displayed accepted
\* outcome is active issues no submission and displays the cooldown rejection,
\* whose seconds are the current counter and fewer than the armed duration.
C11_SecondScanReportsRemaining ==
  [][(isCooldownActive /\ CarriesCooldown(scanResult) /\ DecodeStep)
       => /\ ~SubmissionIssued
          /\ CooldownRejection(scanResult')
          /\ scanResult'.message[3] = ToString(cooldownTimer)
          /\ cooldownTimer < scanResult.cooldown_seconds]_vars

\* The accepted outcome is displayed, its cooldown is active and has not
\* ticked yet, and the demo scanner takes the next click.
C11_ScanBeforeFirstTick ==
  /\ mounted /\ variant = "demo" /\ isScanning /\ ~loading
  /\ isCooldownActive /\ CarriesCooldown(scanResult)
  /\ cooldownTimer = scanResult.cooldown_seconds

\* C12: an outcome is never delivered after the outcome of a submission
\* issued later: the call that settles was overtaken by none.
C12_OutcomesInIssueOrder ==
  [][(mounted /\ ResponseStep) =>
       \A i \in 1..Len(inflight) :
          (\E out \in ProcessScanOutcomes : Respond(i, out)) => ~inflight[i].overtaken]_vars

\* A stop command of either scanner.
StopStep == StopClickDecoder \/ StopClickDemo

\* C13: after a stop command no cooldown interval is scheduled, and none is
\* after the component is unmounted.
C13_StopCancelsTick ==
  [][(StopStep \/ handleLogout) => intervals' = 0]_vars

\* The scanner is stopped while the cooldown interval is ticking.
C13_TickingWhileStopped ==
  mounted /\ ~isScanning /\ error = "null" /\ intervals = 1 /\ isCooldownActive

\* No interval outlives the component.
UnmountCancelsTick == ~mounted => intervals = 0

\* C14: a response that arrives after the scanner was stopped is delivered as
\* for a running scanner: its outcome is displayed with the response's success
\* flag, message and classification, and its cooldown_seconds arms the cooldown.
C14_ResponseAfterStopHandled ==
  [][(mounted /\ ~isScanning /\ ResponseStep) =>
       \A i \in 1..Len(inflight), out \in BackendResponses :
          Respond(i, out) =>
            /\ scanResult' # Null
            /\ scanResult'.success = out.success
            /\ scanResult'.message = out.message
            /\ (out.success \/ scanResult'.isCooldown = IndicatesWait(out.message))
            /\ (Truthy(out) => cooldownTimer' = out.cooldown_seconds)
            /\ ~loading']_vars

\* The scanner was stopped with a submission unresolved; its response has just
\* been delivered as accepted and has armed the cooldown with MaxCooldown.
C14_ArmedAfterStop ==
  /\ mounted /\ ~isScanning /\ error = "null" /\ qrScannerRef = Null
  /\ Accepted(scanResult) /\ effectPending /\ cooldownTimer = MaxCooldown

\* C15: whenever the camera is on, a stop command is accepted.
C15_StopAlwaysAccepted ==
  (mounted /\ isScanning /\ OrphansAfterDrop <= MaxPending) => ENABLED StopStep

\* The camera is on and the stop button is disabled by the cooldown.
C15_StopDisabledInCooldown ==
  mounted /\ isScanning /\ ~loading /\ isCooldownActive /\ inflight = <<>>

\* C16: a camera switch made while the camera is running leaves it running,
\* on the opposite facing.
C16_SwitchKeepsRunning ==
  [][(SwitchStep /\ isScanning) => (isScanning' /\ facingMode' = Flip(facingMode))]_vars

\* The demo scanner is stopped, facing the user, with its stream released.
C16_StoppedAfterSwitch ==
  /\ mounted /\ variant = "demo" /\ ~isScanning /\ facingMode = "user"
  /\ error = "null" /\ ~streamRef /\ pendingStreams = 0 /\ openStreams = 0

\* C17: a switch requested during a submission is applied once nothing is in
\* flight any more, unless a later click or scan overtakes it.
C17_SwitchRequestApplied ==
  (mounted /\ isScanning /\ switchRequested /\ inflight = <<>>)
    ~> (~switchRequested \/ ~isScanning \/ ~mounted)

\* The submission during which the switch was requested has settled and the
\* facing is as it was.
C17_RequestLeftPending ==
  /\ mounted /\ isScanning /\ switchRequested /\ inflight = <<>> /\ ~loading
  /\ ~isCooldownActive /\ ~effectPending /\ facingMode = "environment"

\* The camera state: facing, running flag and the camera resource held.
CameraFrame == <<facingMode, isScanning, qrScannerRef, liveScanners, streamRef, openStreams>>

\* C18: decode events with the submissions they start, responses, cooldown
\* ticks and the cooldown effect leave the camera state unchanged.
C18_CameraStateFrame ==
  [][(DecodeStep \/ ResponseStep \/ Tick \/ CooldownEffect) => UNCHANGED CameraFrame]_vars

\* A decode has started a submission and the camera is still on and held.
C18_SubmittingWithCameraOn ==
  /\ mounted /\ isScanning /\ loading /\ inflight # <<>>
  /\ (Running \/ streamRef)

\* When the counter is 0 and the cooldown effect is not due, the cooldown is
\* inactive.
ZeroMeansInactive == (cooldownTimer = 0 /\ ~effectPending) => ~isCooldownActive

\* C19: the cooldown counter is never negative, and with the counter at 0 the
\* cooldown is inactive.
C19_CounterNonNegative == cooldownTimer >= 0 /\ ZeroMeansInactive

\* C20: a tick happens only while the cooldown is active with a counter of at
\* least 1, takes exactly 1 off it, and ends the cooldown exactly when the
\* counter reaches 0; nothing but a tick, a response or the unmount changes
\* the counter.
C20_TickDecrementsByOne ==
  [][/\ Tick => /\ isCooldownActive /\ cooldownTimer >= 1
                /\ cooldownTimer' = cooldownTimer - 1
                /\ isCooldownActive' = (cooldownTimer' > 0)
     /\ (cooldownTimer' # cooldownTimer) => (Tick \/ ResponseStep \/ handleLogout)]_vars

\* The last tick of a cooldown has just fired: the counter is 0, the cooldown
\* inactive, and the effect that clears the interval is due.
C20_LastTickFired ==
  mounted /\ cooldownTimer = 0 /\ ~isCooldownActive /\ effectPending /\ intervals = 1

\* The outcome carries a positive cooldown_seconds.
PositiveCooldown(r) == Has(r, "cooldown_seconds") /\ r.cooldown_seconds > 0

\* The cooldown is held: the counter is positive and the cooldown is active or
\* the effect that activates it is due.
CooldownHold == cooldownTimer > 0 /\ (isCooldownActive \/ effectPending)

\* C21: a success response, whose cooldown_seconds the accepted outcome
\* carries on, arms the cooldown with that value (the counter is that value
\* and the cooldown is held) if and only if the value is positive; with
\* cooldown_seconds absent or 0 the counter is left as it was and no effect
\* becomes due; either way loading ends.
C21_ArmsIffPositive ==
  [][(mounted /\ ResponseStep /\ Accepted(scanResult')) =>
       /\ PositiveCooldown(scanResult')
            <=> (Has(scanResult', "cooldown_seconds") /\ CooldownHold'
                   /\ cooldownTimer' = scanResult'.cooldown_seconds
                   /\ (effectPending' \/ cooldownTimer = scanResult'.cooldown_seconds))
       /\ (~Has(scanResult', "cooldown_seconds") \/ scanResult'.cooldown_seconds = 0)
            => /\ cooldownTimer' = cooldownTimer
               /\ ~effectPending'
               /\ isCooldownActive' = FlushedActive
               /\ intervals' = FlushedIntervals
       /\ ~loading']_vars

\* An accepted outcome carrying one second of cooldown has just been delivered:
\* the counter is that second and the effect that activates the cooldown is due.
C21_ArmedWithReturnedValue ==
  /\ mounted /\ Accepted(scanResult) /\ Has(scanResult, "cooldown_seconds")
  /\ scanResult.cooldown_seconds = 1 /\ cooldownTimer = 1
  /\ effectPending /\ ~isCooldownActive /\ ~loading /\ inflight = <<>>

\* A step in which the camera acquisition of a start is rejected while the
\* scanner is on screen.
StartFailureStep ==
  mounted /\ (StartSettlesDecoder(FALSE) \/ OrphanStartSettlesDecoder(FALSE)
                \/ AcquireSettlesDemo(FALSE))

\* A step that begins a camera acquisition: a new QrScanner instance is
\* started or getUserMedia is called.
AcquisitionBegun ==
  \/ qrScannerRef' = NewScanner /\ (qrScannerRef # NewScanner \/ orphanStarts' > orphanStarts)
  \/ pendingStreams' > pendingStreams

\* C22: a rejected camera acquisition shows the camera error and leaves the
\* scanner off (isScanning false) without beginning another acquisition, and
\* while the scanner is off only the start command begins one.
C22_FailedStartEndsIdle ==
  [][/\ StartFailureStep => (error' = "camera" /\ ~isScanning' /\ ~AcquisitionBegun)
     /\ (~isScanning /\ AcquisitionBegun) => (StartClickDecoder \/ StartClickDemo)]_vars

\* The start has failed: the camera error is shown, the scanner is off and
\* no acquisition is unresolved.
C22_StartFailedShown ==
  /\ mounted /\ error = "camera" /\ ~isScanning
  /\ pendingStreams = 0 /\ orphanStarts = 0 /\ pendingSetCamera = 0
  /\ (qrScannerRef = Null \/ qrScannerRef.status = "failed")

\* A rejection is displayed.
RejectedShown == scanResult # Null /\ ~scanResult.success

\* The camera is on and takes decode events: the instance held is decoding,
\* or the demo scanner's video element is rendered.
CameraRunning == IF variant = "decoder" THEN Running ELSE isScanning

\* The next decode event would be submitted to the backend: the conditions of
\* the decode callback (or of handleVideoClick) and of handleQRScan, as the
\* closures in use see them.
DecodeSubmits ==
  IF variant = "decoder"
  THEN Running /\ ~cbDisabled /\ ~cbCooldownActive
  ELSE isScanning /\ ~loading /\ ~isCooldownActive

\* Below the bound on unresolved calls, such a decode event is a step of the
\* system that issues a submission.
DecodeSubmitsNow ==
  DecodeSubmits /\ (Len(inflight) < MaxInFlight => ENABLED (DecodeStep /\ SubmissionIssued))

\* C23: whenever a rejection (cooldown, unauthorized or server error) is
\* displayed with the camera running, the system reaches a state in which the
\* next decode event is submitted, unless the camera is turned off or the
\* component unmounted first.
C23_RejectionRecoverable ==
  (mounted /\ RejectedShown /\ CameraRunning)
    ~> (DecodeSubmitsNow \/ ~CameraRunning \/ ~mounted)

\* The demo scanner shows the cooldown rejection while the cooldown is active:
\* the next click is not submitted yet.
C23_RejectedInCooldown ==
  /\ mounted /\ variant = "demo" /\ isScanning /\ ~loading /\ inflight = <<>>
  /\ CooldownRejection(scanResult) /\ isCooldownActive /\ cooldownTimer = MaxCooldown

\* C24: a request that settles with status 401 leaves neither 'token' nor
\* 'user' in storage and sends the window to the panel's entry point; a
\* request that settles with anything else leaves storage and location as
\* they were; every result that is not a 2xx response reaches the caller as a
\* rejection carrying that result, the 401 included.
C24_UnauthorizedInvalidatesSession ==
  [][\A i \in 1..Len(apiCalls), r \in ApiResults :
       ApiSettles(i, r) =>
         /\ (Has(r, "status") /\ r.status = 401)
              => (storage' \cap {"token", "user"} = {} /\ location' = "/panel")
         /\ ~(Has(r, "status") /\ r.status = 401)
              => (storage' = storage /\ location' = location)
         /\ (~Has(r, "status") \/ r.status # 200)
              => (settled'.rejected /\ settled'.result = r)]_vars

\* A 401 has been handled while a request sent with the token is still
\* unresolved: the session is gone, the window is at the panel, the caller
\* got the rejection.
C24_SessionInvalidated ==
  /\ settled # Null /\ settled.rejected /\ settled.result = [status |-> 401]
  /\ storage = {} /\ location = "/panel"
  /\ \E k \in 1..Len(apiCalls) : apiCalls[k].authorized

\* C25: in the decoder-backed scanner a decode event is passed to onScan only
\* when the scanner is not disabled at that moment (nothing in flight, cooldown
\* inactive), and the handler it reaches sees the current cooldown state.
C25_DecodeSeesCurrentState ==
  [][DecodeDecoder => (~Disabled /\ inflight = <<>>
                         /\ cbCooldownActive = isCooldownActive)]_vars

\* The decoder-backed scanner is decoding during a submission with a callback
\* that captured disabled as false.
C25_DecodingWhileSubmitting ==
  mounted /\ variant = "decoder" /\ Running /\ loading /\ inflight # <<>> /\ ~cbDisabled

\* C26: whenever the scanner is off (isScanning false) no camera stream is
\* open and no QrScanner instance is open or held.
C26_IdleHoldsNoCamera ==
  ~isScanning => /\ liveScanners = 0 /\ qrScannerRef = Null
                 /\ openStreams = 0 /\ ~streamRef

\* The demo scanner is off and a stream is open that streamRef does not hold,
\* so that no later stopScanning stops its tracks.
C26_StreamOpenWhileIdle ==
  /\ mounted /\ variant = "demo" /\ ~isScanning /\ error = "null"
  /\ openStreams > 0 /\ ~streamRef /\ pendingStreams = 0

\* At most one QrScanner instance is open, and the instance held was never
\* destroyed.
AtMostOneLiveScanner ==
  liveScanners <= 1 /\ (qrScannerRef # Null => qrScannerRef.destroys = 0)

\* A step that calls setCamera on the instance held.
SetCameraStep == pendingSetCamera' > pendingSetCamera

C28_LoadingIffInFlight == mounted => (loading <=> inflight # <<>>)

\* An outcome has been delivered and loading is false while another
\* processScan call is still unresolved.
C28_IdleLookingWhileInFlight ==
  mounted /\ ~loading /\ scanResult # Null /\ inflight # <<>> /\ isScanning

\* With a single submission at a time, as in the demo scanner, loading follows
\* the unresolved call.
LoadingIffInFlightDemo == (mounted /\ variant = "demo") => (loading <=> inflight # <<>>)

\* While the cooldown is active the counter is at least 1.
ActiveMeansCounting == isCooldownActive => cooldownTimer >= 1

\* With the counter spent and the cooldown effect run, the cooldown is inactive.
SpentMeansInactive == (cooldownTimer <= 0 /\ ~effectPending) => ~isCooldownActive

\* Where a decode event can be handled, the cooldown is active exactly when
\* the counter is at least 1.
AgreeWhereDecodable == (ENABLED DecodeStep) => (isCooldownActive <=> cooldownTimer >= 1)

\* C29: the two fields of the cooldown state agree: active implies a counter
\* of at least 1, a counter of 0 or less implies inactive once the cooldown
\* effect has run, and they agree wherever a decode event can be handled.
C29_CooldownFieldsAgree ==
  ActiveMeansCounting /\ SpentMeansInactive /\ AgreeWhereDecodable

\* The cooldown is still marked active although a response has put a negative
\* value into the counter.
C29_ActiveWithNegativeCounter ==
  mounted /\ isCooldownActive /\ cooldownTimer < 0 /\ isScanning

\* C30, as stated: at most one cooldown interval is scheduled at any time,
\* and none while the counter is 0.
C30_NoIntervalAtZero ==
  intervals <= 1 /\ (cooldownTimer = 0 => intervals = 0)

\* C30, amended: at most one cooldown interval is scheduled at any time, also
\* after a re-arm during an active cooldown; none is scheduled while the
\* counter is 0 or less once the cooldown effect has run, and none after the
\* unmount.
C30_AtMostOneInterval ==
  /\ intervals <= 1
  /\ (cooldownTimer <= 0 /\ ~effectPending) => intervals = 0
  /\ ~mounted => intervals = 0

\* The cooldown was armed again while active: the interval of the earlier
\* arming is still scheduled and the effect that replaces it is due.
C30_RearmedOneInterval ==
  /\ mounted /\ isCooldownActive /\ effectPending /\ intervals = 1
  /\ cooldownTimer = MaxCooldown /\ CarriesCooldown(scanResult) /\ inflight = <<>>

\* The backend responses that report a failure.
FailureResponses == { r \in BackendResponses : ~r.success }

\* The outcome r is a rejection marked unauthorized.
UnauthorizedRejection(r) ==
  r # Null /\ ~r.success /\ Has(r, "isUnauthorized") /\ r.isUnauthorized

SubmissionClearsOutcome == [][SubmissionIssued => scanResult' = Null]_vars

\* With a single submission at a time, as in the demo scanner, nothing is
\* displayed while it is in flight.
NoOutcomeWhileInFlightDemo ==
  (mounted /\ variant = "demo" /\ inflight # <<>>) => scanResult = Null

\* C32: while the dashboard is on screen and a submission is in flight, no
\* outcome is displayed.
C32_NoOutcomeWhileInFlight == (mounted /\ inflight # <<>>) => scanResult = Null

\* The accepted outcome of the first of two submissions is displayed while
\* the second is still in flight.
C32_OutcomeShownWhileInFlight ==
  /\ mounted /\ variant = "decoder" /\ Running
  /\ Len(inflight) = 1 /\ Accepted(scanResult)

====
